---------------------------- MODULE Spec2Model ----------------------------
(***************************************************************************)
(* Model of micropython/esp32/automesh.py: the Mesh class (peer discovery  *)
(* and liveness over ESP-NOW) as three cooperative asyncio tasks.          *)
(*                                                                         *)
(* Tasks run one at a time and are switched only where the code suspends:  *)
(* AIOESPNow.asend (it yields on the I/O queue before it calls send), the  *)
(* `async for` over the mesh (airecv) and asyncio.sleep.  An action is the *)
(* code a task runs from one suspension to the next.  The order in which   *)
(* the scheduler resumes ready tasks is left open.                         *)
(*                                                                         *)
(* Library facts the code depends on (MicroPython 1.21 espnow/aioespnow,   *)
(* the version the module's header names):                                 *)
(*   - ESPNow.get_peer(mac) raises OSError when mac is not registered;     *)
(*   - ESPNow.add_peer(mac) raises OSError when the link layer refuses;    *)
(*   - ESPNow.del_peer(mac) raises OSError when mac is not registered and  *)
(*     otherwise unregisters it and returns None: it is a plain method,    *)
(*     not a coroutine, and `await None` raises TypeError;                 *)
(*   - ESPNow.get_peers() lists every registered address, the broadcast    *)
(*     address included, in an order the library does not specify;         *)
(*   - ESPNow.send(mac, ..) raises OSError when mac is not registered.     *)
(***************************************************************************)
EXTENDS Integers, Sequences, FiniteSets, TLC

\* automesh.py:28  BROADCAST_ADDR = b'\xff\xff\xff\xff\xff\xff', modelled as 0
BROADCAST_ADDR == 0

\* automesh.py:103  the eviction threshold of send_message
EvictionThreshold == 5

\* Bounds of the model.
NumNodes == 1
MaxTime == 1
MaxCalls == 1

\* The unicast addresses of the other nodes in radio range.
Nodes == 1..NumNodes

\* No address (an event that concerns no peer).
NoAddr == 0 - 1

VARIABLES
    phase,        \* "constructed" | "running" | "failed": Mesh.start()
    link,         \* the addresses registered with ESPNow (self.mesh's peer list)
    peers,        \* self.peers: address -> Peer
    is_in_mesh,   \* self.is_in_mesh
    beacon,       \* beacon_task:   "none" | "ready" | "asend" | "sleep" | "done"
                  \*                | "OSError"
    receiver,     \* receiver_task: "none" | "recv" | "UnicodeError"
    notify,       \* notify_task:   "none" | "ready" | "asend" | "retry_sleep"
                  \*                | "cycle_sleep" | "KeyError" | "OSError"
    todo,         \* notify_task: the part of `peers` (line 150) the for loop has
                  \* not finished; its head is the address being notified
    attempts,     \* asend calls made so far by the send_message call in progress
    now,          \* the clock datetime.utcnow() reads
    calls,        \* remove_peer calls the application has made
    event         \* what the last step did: [op, addr, res, n]

vars == <<phase, link, peers, is_in_mesh, beacon, receiver, notify, todo,
          attempts, now, calls, event>>

Event(op, addr, res, n) == [op |-> op, addr |-> addr, res |-> res, n |-> n]

----------------------------------------------------------------------------
\* class Peer, automesh.py:189-204
Peer(mac_address, t) ==
    [mac_address |-> mac_address, failure_count |-> 0, last_seen |-> t]

\* What `await x` does to a value returned by a plain method: only an
\* awaitable can be awaited; awaiting None raises TypeError.
IsAwaitable(v) == v = "coroutine"

\* The value ESPNow.del_peer returns when it succeeds.
del_peer_result == "None"

\* p without the key a (del p[a]).
DictDel(p, a) == [x \in (DOMAIN p) \ {a} |-> p[x]]

\* p with p[a] = v (assignment creates or overwrites the key).
DictSet(p, a, v) == [x \in (DOMAIN p) \cup {a} |-> IF x = a THEN v ELSE p[x]]

\* add_peer with lines 121 and 122 exchanged: the entry is stored before the
\* link layer is asked.
add_peer_stores_first(l, p, a, regOK, t) ==
    IF a \in l
    THEN [link |-> l, peers |-> p]
    ELSE [link |-> IF regOK THEN l \cup {a} ELSE l,
          peers |-> DictSet(p, a, Peer(a, t))]

\* Mesh.add_peer, automesh.py:111-124.  regOK: the link layer accepts the
\* registration.  The tables after the call.
add_peer(l, p, a, regOK, t) ==
    IF a \in l
    THEN \* line 117: get_peer returns, the except branch is not taken
         [link |-> l, peers |-> p]
    ELSE IF regOK
         THEN \* lines 121-122
              [link |-> l \cup {a}, peers |-> DictSet(p, a, Peer(a, t))]
         ELSE \* line 121 raises, line 122 is skipped, lines 123-124 report
              [link |-> l, peers |-> p]

\* Mesh.remove_peer, automesh.py:127-135.  The tables after the call.
remove_peer(l, p, a) ==
    IF a \notin l
    THEN \* line 132: del_peer raises OSError, caught at line 134
         [link |-> l, peers |-> p]
    ELSE IF IsAwaitable(del_peer_result)
         THEN \* line 133
              [link |-> l \ {a}, peers |-> DictDel(p, a)]
         ELSE \* line 132: del_peer has unregistered a; awaiting its result
              \* raises TypeError, caught at line 134; line 133 is not reached
              [link |-> l \ {a}, peers |-> p]


\* receiver_body that renews the entry of a sender it already knows.
receiver_body_refreshes(l, p, j, a, regOK, t) ==
    IF a \in l
    THEN [link |-> l, peers |-> DictSet(p, a, Peer(a, t)), is_in_mesh |-> TRUE]
    ELSE LET r == add_peer(l, p, a, regOK, t)
         IN  [link |-> r.link, peers |-> r.peers, is_in_mesh |-> TRUE]

\* receiver_body with line 79 storing whether this frame registered a peer.
receiver_body_flag_follows(l, p, j, a, regOK, t) ==
    LET r == add_peer(l, p, a, regOK, t)
    IN  [link |-> r.link, peers |-> r.peers, is_in_mesh |-> r.link # l]

\* Mesh.receiver_task, automesh.py:72-79: the tables and the flag after one
\* decoded frame from sender a.
receiver_body(l, p, j, a, regOK, t) ==
    IF a \in l
    THEN \* line 75 returns: the sender is registered
         [link |-> l, peers |-> p, is_in_mesh |-> j]
    ELSE \* line 75 raises: lines 77-79
         LET r == add_peer(l, p, a, regOK, t)
         IN  [link |-> r.link, peers |-> r.peers, is_in_mesh |-> TRUE]

\* beacon_task looping unconditionally.
beacon_continue_always(j) == TRUE

\* Mesh.beacon_task, automesh.py:61: the loop condition.
beacon_continue(j) == ~j

\* send_message without the reset of line 97.
count_kept_after_success(fc) == fc

\* Mesh.send_message, automesh.py:97: the count stored after a send succeeded.
count_after_success(fc) == 0

\* Mesh.send_message, automesh.py:100: the count stored after a send failed.
count_after_failure(fc) == fc + 1

\* The eviction test with > for >=.
threshold_exceeded(fc) == fc > EvictionThreshold

\* Mesh.send_message, automesh.py:103: the eviction test.
threshold_reached(fc) == fc >= EvictionThreshold

\* Mesh.send_message, automesh.py:95-108: one turn of the loop, from the
\* return of asend (ok: what it returned) to the break, the sleep or the
\* exception.  out: "success" | "evicted" (the call returns), "retry" (line
\* 108), "KeyError" | "OSError" (the call raises).
send_message(l, p, a, ok) ==
    IF a \notin l
    THEN \* line 96: ESPNow.send raises for an unregistered address
         [link |-> l, peers |-> p, out |-> "OSError"]
    ELSE IF a \notin DOMAIN p
    THEN \* line 97 or line 100: self.peers[peer_address] has no such key
         [link |-> l, peers |-> p, out |-> "KeyError"]
    ELSE IF ok
    THEN [link |-> l,
          peers |-> [p EXCEPT ![a].failure_count = count_after_success(@)],
          out |-> "success"]
    ELSE LET p1 == [p EXCEPT ![a].failure_count = count_after_failure(@)]
         IN  IF threshold_reached(p1[a].failure_count)
             THEN LET r == remove_peer(l, p1, a)
                  IN  [link |-> r.link, peers |-> r.peers, out |-> "evicted"]
             ELSE [link |-> l, peers |-> p1, out |-> "retry"]

\* The orders in which get_peers() may list the registered addresses.
Orderings(S) ==
    {s \in [1..Cardinality(S) -> S] :
        \A i, k \in 1..Cardinality(S) : i # k => s[i] # s[k]}

----------------------------------------------------------------------------
\* Mesh.__init__, automesh.py:36-41
Init ==
    /\ phase = "constructed"
    /\ link = {}
    /\ peers = <<>>
    /\ is_in_mesh = FALSE
    /\ beacon = "none"
    /\ receiver = "none"
    /\ notify = "none"
    /\ todo = <<>>
    /\ attempts = 0
    /\ now = 0
    /\ calls = 0
    /\ event = Event("init", NoAddr, "", 0)

\* start() with the tasks created before the transport is activated and the
\* broadcast address registered (lines 50-52 ahead of lines 47-48).
Start_creates_tasks_first ==
    /\ phase = "constructed"
    /\ beacon' = "ready"
    /\ notify' = "ready"
    /\ receiver' = "recv"
    /\ \E activated \in BOOLEAN :
          IF activated
          THEN /\ phase' = "running"
               /\ link' = link \cup {BROADCAST_ADDR}
               /\ event' = Event("start", NoAddr, "", 0)
          ELSE /\ phase' = "failed"
               /\ UNCHANGED link
               /\ event' = Event("start", NoAddr, "OSError", 0)
    /\ UNCHANGED <<peers, is_in_mesh, todo, attempts, now, calls>>

\* Mesh.start, automesh.py:46-52.  Activation (line 47) may fail: start()
\* raises and no task is created.
Start ==
    /\ phase = "constructed"
    /\ \E activated \in BOOLEAN :
          IF activated
          THEN /\ phase' = "running"
               /\ link' = link \cup {BROADCAST_ADDR}
               /\ beacon' = "ready"
               /\ notify' = "ready"
               /\ receiver' = "recv"
               /\ event' = Event("start", NoAddr, "", 0)
          ELSE /\ phase' = "failed"
               /\ UNCHANGED <<link, beacon, notify, receiver>>
               /\ event' = Event("start", NoAddr, "OSError", 0)
    /\ UNCHANGED <<peers, is_in_mesh, todo, attempts, now, calls>>

\* beacon_task, automesh.py:61-62 and 65: the task is resumed (first run, or
\* the sleep of line 63 is over), tests the loop condition and either calls
\* broadcast(), which suspends in asend before the frame is sent, or exits.
BeaconLoop ==
    /\ beacon \in {"ready", "sleep"}
    /\ IF beacon_continue(is_in_mesh)
       THEN /\ beacon' = "asend"
            /\ event' = Event("broadcast", BROADCAST_ADDR, "", 0)
       ELSE /\ beacon' = "done"
            /\ event' = Event("beacon_exit", NoAddr, "", 0)
    /\ UNCHANGED <<phase, link, peers, is_in_mesh, receiver, notify, todo,
                   attempts, now, calls>>

\* beacon_task, automesh.py:87 and 63: asend resumes, the frame goes out and
\* the task sleeps.
BeaconSent ==
    /\ beacon = "asend"
    /\ IF BROADCAST_ADDR \in link
       THEN /\ beacon' = "sleep"
            /\ event' = Event("broadcast_sent", BROADCAST_ADDR, "", 0)
       ELSE \* ESPNow.send raises for an unregistered address: the task ends
            /\ beacon' = "OSError"
            /\ event' = Event("broadcast_sent", BROADCAST_ADDR, "OSError", 0)
    /\ UNCHANGED <<phase, link, peers, is_in_mesh, receiver, notify, todo,
                   attempts, now, calls>>

\* receiver_task, automesh.py:69-79: one frame from a.  decodable: line 70's
\* message.decode() succeeds (it raises UnicodeError on a payload that is not
\* UTF-8, which ends the task).
ReceiveFrame ==
    /\ receiver = "recv"
    /\ \E a \in Nodes, decodable \in BOOLEAN, regOK \in BOOLEAN :
          IF ~decodable
          THEN /\ receiver' = "UnicodeError"
               /\ event' = Event("frame", a, "UnicodeError", 0)
               /\ UNCHANGED <<link, peers, is_in_mesh>>
          ELSE LET r == receiver_body(link, peers, is_in_mesh, a, regOK, now)
               IN  /\ link' = r.link
                   /\ peers' = r.peers
                   /\ is_in_mesh' = r.is_in_mesh
                   /\ receiver' = "recv"
                   /\ event' = Event("frame", a,
                                     IF a \in link THEN "known"
                                     ELSE IF regOK THEN "added"
                                     ELSE "registration_failed",
                                     \* 1: self.peers held the sender already
                                     IF a \in DOMAIN peers THEN 1 ELSE 0)
    /\ UNCHANGED <<phase, beacon, notify, todo, attempts, now, calls>>

\* notify_task, automesh.py:149-156, from the point where send_message has
\* returned for the head of `rest`: the for loop goes on to the next address
\* and suspends in its asend, or, the list finished, sleeps (line 156).
NotifyNext(rest) ==
    /\ todo' = rest
    /\ attempts' = 0
    /\ notify' = IF rest = <<>> THEN "cycle_sleep" ELSE "asend"

\* notify_task, automesh.py:149-154: the task is resumed (first run, or the
\* sleep of line 156 is over) and takes the list of registered peers.
NotifyCycle ==
    /\ notify \in {"ready", "cycle_sleep"}
    /\ \E snapshot \in Orderings(link) :
          /\ NotifyNext(snapshot)
          /\ event' = Event("snapshot", NoAddr, "", Len(snapshot))
    /\ UNCHANGED <<phase, link, peers, is_in_mesh, beacon, receiver, now, calls>>

\* send_message called by notify_task, automesh.py:96-108: asend resumes and
\* returns ok.
NotifySendDone ==
    /\ notify = "asend"
    /\ \E ok \in BOOLEAN :
          LET a == Head(todo)
              r == send_message(link, peers, a, ok)
          IN  /\ link' = r.link
              /\ peers' = r.peers
              /\ event' = Event("send", a, r.out, attempts + 1)
              /\ CASE r.out \in {"success", "evicted"} -> NotifyNext(Tail(todo))
                   [] r.out = "retry" ->
                        /\ notify' = "retry_sleep"
                        /\ attempts' = attempts + 1
                        /\ UNCHANGED todo
                   [] OTHER ->
                        \* unhandled in notify_task: the task ends
                        /\ notify' = r.out
                        /\ attempts' = attempts + 1
                        /\ UNCHANGED todo
    /\ UNCHANGED <<phase, is_in_mesh, beacon, receiver, now, calls>>

\* send_message, automesh.py:108 and 95-96: the sleep is over, the loop calls
\* asend again.
NotifyRetry ==
    /\ notify = "retry_sleep"
    /\ notify' = "asend"
    /\ event' = Event("retry", Head(todo), "", attempts)
    /\ UNCHANGED <<phase, link, peers, is_in_mesh, beacon, receiver, todo,
                   attempts, now, calls>>

\* Time passes.
Tick ==
    /\ now < MaxTime
    /\ now' = now + 1
    /\ event' = Event("tick", NoAddr, "", 0)
    /\ UNCHANGED <<phase, link, peers, is_in_mesh, beacon, receiver, notify,
                   todo, attempts, calls>>

Next ==
    \/ Start
    \/ BeaconLoop
    \/ BeaconSent
    \/ ReceiveFrame
    \/ NotifyCycle
    \/ NotifySendDone
    \/ NotifyRetry
    \/ Tick

Spec == Init /\ [][Next]_vars

\* The scheduler resumes every ready task, a sleep ends and the radio accepts
\* a frame to send: each task that can take a step eventually takes it.  No
\* frame need ever arrive.
FairSpec ==
    /\ Spec
    /\ WF_vars(BeaconLoop)
    /\ WF_vars(BeaconSent)
    /\ WF_vars(NotifyCycle)
    /\ WF_vars(NotifySendDone)
    /\ WF_vars(NotifyRetry)

\* Mesh.remove_peer, automesh.py:127-135, called by the application for any
\* address while the mesh runs.  The call never suspends (del_peer is not a
\* coroutine) and never raises (line 134 catches every Exception).
RemoveCall ==
    /\ phase = "running"
    /\ calls < MaxCalls
    /\ calls' = calls + 1
    /\ \E a \in Nodes \cup {BROADCAST_ADDR} :
          LET r == remove_peer(link, peers, a)
          IN  /\ link' = r.link
              /\ peers' = r.peers
              /\ event' = Event("remove", a, "returned", 0)
    /\ UNCHANGED <<phase, is_in_mesh, beacon, receiver, notify, todo,
                   attempts, now>>

\* The mesh with an application that calls remove_peer.
ApiNext ==
    \/ Next
    \/ RemoveCall

ApiSpec == Init /\ [][ApiNext]_vars

----------------------------------------------------------------------------
\* The send_message call in progress in notify_task and its target.
Sending == notify \in {"asend", "retry_sleep"}
Target == Head(todo)

\* C1  Eviction: when the 5th consecutive Transport.send of a send_message
\* call to P fails, the call returns with P absent from self.peers and makes
\* no further send to P.  (Fails: remove_peer leaves the entry.)
C1_EvictionRemovesPeer ==
    (event.op = "send" /\ event.res = "evicted")
        => /\ event.n = EvictionThreshold
           /\ event.addr \notin DOMAIN peers
           /\ ~(Sending /\ Target = event.addr)

\* C2  Reset: when Transport.send to a peer P of self.peers returns true in
\* send_message, P's failure_count is 0 when the call returns.
C2_SuccessResetsCount ==
    (event.op = "send" /\ event.res = "success")
        => /\ event.addr \in DOMAIN peers
           /\ peers[event.addr].failure_count = 0

\* A send that succeeded on the third attempt, after two failures.
C2_Witness ==
    /\ event.op = "send"
    /\ event.res = "success"
    /\ event.n = 3

\* C3  Join monotonicity: once is_in_mesh is true it stays true in every later
\* state, under every interleaving of the three tasks.
C3_JoinedStaysTrue == [][is_in_mesh => is_in_mesh']_vars

\* Joined, and the last registered peer has just been evicted.
C3_Witness ==
    /\ is_in_mesh
    /\ event.res = "evicted"
    /\ link = {BROADCAST_ADDR}

\* C4  is_in_mesh turns true only in a step that registered a peer: a frame
\* from an unknown sender whose registration fails leaves it as it was.
\* (Fails: line 79 runs whether or not add_peer registered the sender.)
C4_JoinedOnlyOnRegistration ==
    [][(~is_in_mesh /\ is_in_mesh')
          => \E a \in Nodes : a \notin link /\ a \in link' /\ a \in DOMAIN peers']_vars

\* C5  Beacon silence after join: beacon_task starts no broadcast in a state
\* where is_in_mesh is true.
C5_NoBroadcastStartedAfterJoin ==
    event.op = "broadcast" => ~is_in_mesh

\* beacon_task tested its loop condition with is_in_mesh true and left the
\* loop without broadcasting.
C5_Witness ==
    /\ event.op = "beacon_exit"
    /\ is_in_mesh

\* C6  Beacon termination: under fair scheduling, once is_in_mesh is true
\* beacon_task eventually ends, and once ended it stays ended and starts no
\* broadcast, also after every peer has been evicted.
C6_BeaconTerminates ==
    /\ is_in_mesh ~> (beacon = "done")
    /\ [][beacon = "done" => beacon' = "done"]_vars
    /\ [](beacon = "done" => event.op \notin {"broadcast", "broadcast_sent"})

\* beacon_task has ended and the only registered peer has just been evicted.
C6_Witness ==
    /\ beacon = "done"
    /\ event.res = "evicted"
    /\ link = {BROADCAST_ADDR}

\* C7  Per-peer failures are contained: after a normal start neither
\* notify_task nor receiver_task has ended on an unhandled exception raised
\* by a send to, or a counter update of, an address without a self.peers
\* entry.  (Fails: get_peers() lists the broadcast address.)
C7_PerPeerFailuresContained ==
    (phase = "running" /\ BROADCAST_ADDR \in link)
        => /\ notify \notin {"KeyError", "OSError"}
           /\ receiver \notin {"KeyError", "OSError"}

\* C8  Bounded retry: a send_message call to a peer of self.peers makes at
\* most 5 Transport.send attempts, its 5th attempt ends it, and under fair
\* scheduling every such call returns.
C8_BoundedRetry ==
    /\ [](event.op = "send" =>
            /\ event.n <= EvictionThreshold
            /\ (event.n = EvictionThreshold => event.res # "retry"))
    /\ [](Sending => attempts < EvictionThreshold)
    /\ (Sending /\ Target \in DOMAIN peers)
          ~> (event.op = "send" /\ event.res \in {"success", "evicted"})

\* A call that returned on its 5th attempt with a success, after 4 failures.
C8_Witness ==
    /\ event.op = "send"
    /\ event.res = "success"
    /\ event.n = EvictionThreshold

\* C9  Insert idempotence: add_peer for an address that self.peers already
\* holds leaves its entry and its failure_count as they were.
\* (Fails: an evicted peer keeps its entry, and line 122 overwrites it.)
C9_InsertKeepsCount ==
    [][\A a \in Nodes :
          (/\ event'.op = "frame"
           /\ event'.addr = a
           /\ event'.res \in {"added", "registration_failed"}
           /\ a \in DOMAIN peers)
          => /\ a \in DOMAIN peers'
             /\ peers'[a].failure_count = peers[a].failure_count]_vars

\* C10  A failed link registration of an unknown sender leaves self.peers (and
\* the link layer's list) unchanged and receiver_task waiting for the next
\* frame.
C10_RegistrationFailureIgnored ==
    [][(event'.op = "frame" /\ event'.res = "registration_failed")
          => /\ peers' = peers
             /\ link' = link
             /\ receiver' = "recv"]_vars

\* A registration has just failed: the sender has no entry and the receiver
\* is ready for the next frame.
C10_Witness ==
    /\ event.op = "frame"
    /\ event.res = "registration_failed"
    /\ event.addr \notin DOMAIN peers
    /\ event.addr \notin link
    /\ receiver = "recv"

\* C11  remove_peer for an address that is not in self.peers or not
\* link-registered returns normally and leaves self.peers, the link list and
\* is_in_mesh unchanged.  (Fails for a registered address without an entry.)
C11_RemoveAbsentIsNoOp ==
    [][(/\ event'.op = "remove"
        /\ (event'.addr \notin DOMAIN peers \/ event'.addr \notin link))
          => /\ event'.res = "returned"
             /\ peers' = peers
             /\ link' = link
             /\ is_in_mesh' = is_in_mesh]_vars

\* C12  notify_task probes only table members: every address of a cycle's
\* snapshot has a self.peers entry when the snapshot is taken, and no
\* heartbeat is addressed to the broadcast address.
\* (Fails: the snapshot is get_peers(), which lists the broadcast address.)
C12_ProbesOnlyTableMembers ==
    /\ event.op = "snapshot" =>
          \A i \in 1..Len(todo) : todo[i] \in DOMAIN peers
    /\ Sending => Target # BROADCAST_ADDR

\* C13  Under fair scheduling a peer of self.peers whose sends all fail from
\* some state on is eventually removed from self.peers (so: a peer stays only
\* if a send to it succeeds again and again), and notify_task sends to no
\* address that is not registered.
\* (Fails: notify_task has ended, C7, and an evicted entry stays, C1.)
C13_UnreachableEventuallyEvicted ==
    /\ \A a \in Nodes :
          (a \in DOMAIN peers)
             ~> (\/ a \notin DOMAIN peers
                 \/ (event.op = "send" /\ event.addr = a
                                       /\ event.res = "success"))
    /\ [](Sending => Target \in link)

\* C14  Failure-count range: every entry of self.peers has failure_count in
\* 0..4 at every suspension point, and send_message evicts only on the
\* attempt that takes the count to 5.
\* (Fails: the evicted entry stays in self.peers with failure_count 5, C1.)
C14_FailureCountRange ==
    /\ \A a \in DOMAIN peers :
          peers[a].failure_count \in 0..(EvictionThreshold - 1)
    /\ (event.op = "send" /\ event.res = "evicted")
          => event.n = EvictionThreshold

\* C15  A frame from a sender that is already link-registered changes
\* nothing: self.peers (entries and counts), the link list and is_in_mesh
\* are as before.
C15_KnownSenderChangesNothing ==
    [][(event'.op = "frame" /\ event'.res = "known")
          => /\ event'.addr \in link
             /\ peers' = peers
             /\ link' = link
             /\ is_in_mesh' = is_in_mesh]_vars

\* A frame from a known sender was handled while its entry had a failure
\* count above 0 and the clock had moved on since the entry was made.
C15_Witness ==
    /\ event.op = "frame"
    /\ event.res = "known"
    /\ peers[event.addr].failure_count > 0
    /\ peers[event.addr].last_seen < now

\* C16  Snapshot iteration: under fair scheduling every address of a cycle's
\* snapshot gets its send_message call, one call at a time, whatever the
\* receiver inserts or an eviction removes meanwhile.
\* (Fails: the call for the broadcast address raises and ends the cycle, C7.)
C16_EverySnapshotAddressProbed ==
    \A a \in Nodes \cup {BROADCAST_ADDR} :
        (event.op = "snapshot" /\ \E i \in 1..Len(todo) : todo[i] = a)
           ~> (event.op = "send" /\ event.addr = a)

\* C17  last_seen is the time of the last exchange: right after a successful
\* send to P, or a frame received from P, P's last_seen is the current time.
\* (Fails: last_seen is written only when the Peer is created.)
C17_LastSeenTracksExchange ==
    (/\ event.op \in {"send", "frame"}
     /\ event.res \in {"success", "known", "added"}
     /\ event.addr \in DOMAIN peers)
        => peers[event.addr].last_seen = now

\* C18  Startup order: no task exists, and no beacon, heartbeat or frame is
\* handled, unless the transport was activated and the broadcast address
\* registered; when activation fails start() fails and no task is started.
C18_NothingBeforeActivation ==
    /\ (beacon # "none" \/ notify # "none" \/ receiver # "none")
          => (phase = "running" /\ BROADCAST_ADDR \in link)
    /\ event.op \notin {"init", "start", "tick"}
          => (phase = "running" /\ BROADCAST_ADDR \in link)
    /\ phase = "failed"
          => (beacon = "none" /\ notify = "none" /\ receiver = "none"
                              /\ link = {})

\* Activation failed: start() has raised and no task was created.
C18_Witness ==
    /\ phase = "failed"
    /\ event.op = "start"
    /\ event.res = "OSError"
    /\ beacon = "none"

\* C19  Table/link consistency: at every suspension point the addresses of
\* self.peers are the link-registered addresses without the broadcast one.
\* (Fails: remove_peer unregisters the link and keeps the entry, C1.)
C19_TableMatchesLink ==
    DOMAIN peers = link \ {BROADCAST_ADDR}

\* C20  An evicted peer can rejoin: a frame from it, registration succeeding,
\* puts it back with failure_count 0 and, under fair scheduling, notify_task
\* sends to it again.
\* (Fails: notify_task ends in the cycle that evicted the peer, C7.)
C20_EvictedPeerRejoins ==
    /\ [][\A a \in Nodes :
            (event'.op = "frame" /\ event'.addr = a /\ event'.res = "added")
               => /\ a \in link'
                  /\ a \in DOMAIN peers'
                  /\ peers'[a].failure_count = 0]_vars
    /\ \A a \in Nodes :
          (event.op = "frame" /\ event.addr = a /\ event.res = "added"
                              /\ event.n = 1)
             ~> (Sending /\ Target = a)

============================================================================
